---- MODULE Spec2Model ----
(***************************************************************************)
(* sort-css-media-queries (src/index.js): the two comparators sortCSSmq    *)
(* and sortCSSmq.desktopFirst, the four classifiers built by testQuery,    *)
(* and getQueryLength.                                                     *)
(*                                                                         *)
(* A query string is a sequence of lexemes; its text is the concatenation  *)
(* of the lexemes' texts.  A lexeme is one of                              *)
(*   [kind |-> "feature", name |-> "min-width", num |-> 0]  "(min-width:"  *)
(*   [kind |-> "length",  name |-> "px",        num |-> 16] "16px)"        *)
(* so <<feature min-width, length 16 px>> is the text "(min-width:16px)".  *)
(* Every feature lexeme ends in ":", so that two feature names in one      *)
(* string always have at least one character between them (the ".+" of the *)
(* ordered patterns), and no pattern can match across two lexemes.         *)
(*                                                                         *)
(* Lengths are kept in units of 1/128 px, which makes the factors of       *)
(* getQueryLength integers: 8.8984375 = 1139/128, 8.296875 = 1062/128.     *)
(***************************************************************************)
EXTENDS Integers, Sequences, FiniteSets, TLC

VARIABLES a, b, c, list, prev, ret

vars == <<a, b, c, list, prev, ret>>

-----------------------------------------------------------------------------
(* Bounds *)

\* lexemes per query in the comparator specifications
MaxLen == 2
\* numbers n of the lengths "n em" and "16n px"
MaxNum == 2
\* feature lexemes per query in the classifier specification
MaxFeatures == 3
\* queries per list in the sorting specification
MaxList == 2
\* sorting passes over one list
MaxPasses == 2

-----------------------------------------------------------------------------
(* Lexemes and query strings *)

Feature(n) == [kind |-> "feature", name |-> n, num |-> 0]
Length(n, u) == [kind |-> "length", name |-> u, num |-> n]

\* every dimensional feature name the patterns can tell apart, and the one
\* spelling "min-device--width" that only minMaxWidth accepts
FeatureNames ==
    << "max-device-height", "max-device-width", "max-height", "max-width",
       "min-device--width", "min-device-height", "min-device-width",
       "min-height", "min-width" >>

AllFeatures == { Feature(FeatureNames[i]) : i \in DOMAIN FeatureNames }

\* the lexemes of the comparator specifications: a minimum bound and a
\* maximum bound on different axes (so that a query can be neither, either
\* or both), and the lengths n em and 16n px, which are equal for equal n
Lexemes ==
    { Feature("min-width"), Feature("max-height") }
    \cup { Length(n, "em") : n \in 1..MaxNum }
    \cup { Length(16 * n, "px") : n \in 1..MaxNum }

RECURSIVE SeqsUpTo(_, _)
SeqsUpTo(S, n) ==
    IF n = 0 THEN { <<>> }
    ELSE LET shorter == SeqsUpTo(S, n - 1)
         IN  shorter \cup { Append(s, x) : s \in shorter, x \in S }

Queries == SeqsUpTo(Lexemes, MaxLen)
FeatureQueries == SeqsUpTo(AllFeatures, MaxFeatures)

-----------------------------------------------------------------------------
(* The pattern constants, src/index.js:18-32.  Each is a search: it matches *)
(* when the string holds the pattern anywhere.                              *)

IsFeature(x, names) == x.kind = "feature" /\ x.name \in names

\* some lexeme of q is a feature with one of the names
Mentions(q, names) == \E i \in DOMAIN q : IsFeature(q[i], names)

\* a feature with a name of `first`, then at least one character, then a
\* feature with a name of `second`
Ordered(q, first, second) ==
    \E i \in DOMAIN q : \E j \in DOMAIN q :
        i < j /\ IsFeature(q[i], first) /\ IsFeature(q[j], second)

\* /(!?\(\s*min(-device-)?-width).+\(\s*max(-device)?-width/
\* "min(-device-)?-width" is "min-width" or "min-device--width"
minMaxWidth(q) ==
    Ordered(q, {"min-width", "min-device--width"}, {"max-width", "max-device-width"})

\* /\(\s*min(-device)?-width/
minWidth(q) == Mentions(q, {"min-width", "min-device-width"})

\* /(!?\(\s*max(-device)?-width).+\(\s*min(-device)?-width/
maxMinWidth(q) ==
    Ordered(q, {"max-width", "max-device-width"}, {"min-width", "min-device-width"})

\* /\(\s*max(-device)?-width/
maxWidth(q) == Mentions(q, {"max-width", "max-device-width"})

\* /(!?\(\s*min(-device)?-height).+\(\s*max(-device)?-height/
minMaxHeight(q) ==
    Ordered(q, {"min-height", "min-device-height"}, {"max-height", "max-device-height"})

\* /\(\s*min(-device)?-height/
minHeight(q) == Mentions(q, {"min-height", "min-device-height"})

\* /(!?\(\s*max(-device)?-height).+\(\s*min(-device)?-height/
maxMinHeight(q) ==
    Ordered(q, {"max-height", "max-device-height"}, {"min-height", "min-device-height"})

\* /\(\s*max(-device)?-height/
maxHeight(q) == Mentions(q, {"max-height", "max-device-height"})

\* testQuery with the two ordered tests taken in the other order
testQueryFalseFirst(doubleTestTrue, doubleTestFalse, singleTest) ==
    IF doubleTestFalse THEN FALSE
    ELSE IF doubleTestTrue THEN TRUE
    ELSE singleTest

\* testQuery, src/index.js:86-99; the arguments are the three patterns'
\* answers on the query
testQuery(doubleTestTrue, doubleTestFalse, singleTest) ==
    IF doubleTestTrue THEN TRUE
    ELSE IF doubleTestFalse THEN FALSE
    ELSE singleTest

isMinWidth(q) == testQuery(minMaxWidth(q), maxMinWidth(q), minWidth(q))
isMaxWidth(q) == testQuery(maxMinWidth(q), minMaxWidth(q), maxWidth(q))
isMinHeight(q) == testQuery(minMaxHeight(q), maxMinHeight(q), minHeight(q))
isMaxHeight(q) == testQuery(maxMinHeight(q), minMaxHeight(q), maxHeight(q))

\* let minA = isMinWidth(a) || isMinHeight(a)
hasMinBound(q) == isMinWidth(q) \/ isMinHeight(q)
\* let maxA = isMaxWidth(a) || isMaxHeight(a)
hasMaxBound(q) == isMaxWidth(q) \/ isMaxHeight(q)

-----------------------------------------------------------------------------
(* getQueryLength, src/index.js:45-75 *)

\* Number.MAX_VALUE: above every length a bounded query can hold
maxValue == 2147483647

\* (ch|em|ex|px|rem)
Units == {"ch", "em", "ex", "px", "rem"}

\* /(-?\d*\.?\d+)(ch|em|ex|px|rem)/ matches inside the lexeme
HasLength(x) == x.kind = "length" /\ x.name \in Units

\* the switch on the unit, in 1/128 px
Factor(unit) ==
    CASE unit = "ch" -> 1139
      [] unit \in {"em", "rem"} -> 2048
      [] unit = "ex" -> 1062
      [] unit = "px" -> 128

RECURSIVE getQueryLengthLast(_)
\* getQueryLength measuring the last length of the string
getQueryLengthLast(q) ==
    IF q = <<>> THEN maxValue
    ELSE IF HasLength(q[Len(q)]) THEN q[Len(q)].num * Factor(q[Len(q)].name)
    ELSE getQueryLengthLast(SubSeq(q, 1, Len(q) - 1))

RECURSIVE getQueryLength(_)
\* exec returns the leftmost match, or null
getQueryLength(q) ==
    IF q = <<>> THEN maxValue
    ELSE IF HasLength(Head(q)) THEN Head(q).num * Factor(Head(q).name)
    ELSE getQueryLength(Tail(q))

-----------------------------------------------------------------------------
(* String.prototype.localeCompare on the texts, as called at                *)
(* src/index.js:131,152,181,202.  In the collation order "(" and ")" come   *)
(* before the digits and the digits before the letters.                     *)

RECURSIVE Digits(_)
Digits(n) == IF n < 10 THEN <<n>> ELSE Append(Digits(n \div 10), n % 10)

\* a letter's key: 10 + its place in the alphabet
UnitKeys(u) ==
    CASE u = "ch" -> <<12, 17>>
      [] u = "em" -> <<14, 22>>
      [] u = "ex" -> <<14, 33>>
      [] u = "px" -> <<25, 33>>
      [] u = "rem" -> <<27, 14, 22>>

\* The collation keys of a lexeme's text.  A feature's text "(name:" gets one
\* key below -1: FeatureNames is in collation order, no feature text is a
\* prefix of another, and "(" sorts before ")", digits and letters.
Keys(x) ==
    IF x.kind = "feature"
    THEN << (CHOOSE i \in DOMAIN FeatureNames : FeatureNames[i] = x.name) - 100 >>
    ELSE Digits(x.num) \o UnitKeys(x.name) \o << -1 >>

RECURSIVE Text(_)
Text(q) == IF q = <<>> THEN <<>> ELSE Keys(Head(q)) \o Text(Tail(q))

RECURSIVE CompareKeys(_, _)
CompareKeys(s, t) ==
    IF s = <<>> THEN (IF t = <<>> THEN 0 ELSE -1)
    ELSE IF t = <<>> THEN 1
    ELSE IF Head(s) < Head(t) THEN -1
    ELSE IF Head(s) > Head(t) THEN 1
    ELSE CompareKeys(Tail(s), Tail(t))

localeCompare(s, t) == CompareKeys(Text(s), Text(t))

-----------------------------------------------------------------------------
(* The comparators, src/index.js:113-153 and 163-203 *)

\* sortCSSmq with the two priority tests taken in the other order
sortCSSmqMaxFirst(x, y) ==
    LET minA == hasMinBound(x)
        maxA == hasMaxBound(x)
        minB == hasMinBound(y)
        maxB == hasMaxBound(y)
        lengthA == getQueryLength(x)
        lengthB == getQueryLength(y)
    IN  IF maxA /\ minB THEN 1
        ELSE IF minA /\ maxB THEN -1
        ELSE IF lengthA = maxValue /\ lengthB = maxValue THEN localeCompare(x, y)
        ELSE IF lengthA = maxValue THEN 1
        ELSE IF lengthB = maxValue THEN -1
        ELSE IF lengthA > lengthB THEN (IF maxA THEN -1 ELSE 1)
        ELSE IF lengthA < lengthB THEN (IF maxA THEN 1 ELSE -1)
        ELSE localeCompare(x, y)

\* sortCSSmq without the two tests of one unmeasurable side
sortCSSmqNoSentinel(x, y) ==
    LET minA == hasMinBound(x)
        maxA == hasMaxBound(x)
        minB == hasMinBound(y)
        maxB == hasMaxBound(y)
        lengthA == getQueryLength(x)
        lengthB == getQueryLength(y)
    IN  IF minA /\ maxB THEN -1
        ELSE IF maxA /\ minB THEN 1
        ELSE IF lengthA = maxValue /\ lengthB = maxValue THEN localeCompare(x, y)
        ELSE IF lengthA > lengthB THEN (IF maxA THEN -1 ELSE 1)
        ELSE IF lengthA < lengthB THEN (IF maxA THEN 1 ELSE -1)
        ELSE localeCompare(x, y)

\* sortCSSmq ordering every pair of lengths ascending
sortCSSmqAscending(x, y) ==
    LET minA == hasMinBound(x)
        maxA == hasMaxBound(x)
        minB == hasMinBound(y)
        maxB == hasMaxBound(y)
        lengthA == getQueryLength(x)
        lengthB == getQueryLength(y)
    IN  IF minA /\ maxB THEN -1
        ELSE IF maxA /\ minB THEN 1
        ELSE IF lengthA = maxValue /\ lengthB = maxValue THEN localeCompare(x, y)
        ELSE IF lengthA = maxValue THEN 1
        ELSE IF lengthB = maxValue THEN -1
        ELSE IF lengthA > lengthB THEN 1
        ELSE IF lengthA < lengthB THEN -1
        ELSE localeCompare(x, y)

\* function sortCSSmq (a, b), src/index.js:113-153
sortCSSmq(x, y) ==
    LET minA == hasMinBound(x)
        maxA == hasMaxBound(x)
        minB == hasMinBound(y)
        maxB == hasMaxBound(y)
        lengthA == getQueryLength(x)
        lengthB == getQueryLength(y)
    IN  IF minA /\ maxB THEN -1
        ELSE IF maxA /\ minB THEN 1
        ELSE IF lengthA = maxValue /\ lengthB = maxValue THEN localeCompare(x, y)
        ELSE IF lengthA = maxValue THEN 1
        ELSE IF lengthB = maxValue THEN -1
        ELSE IF lengthA > lengthB THEN (IF maxA THEN -1 ELSE 1)
        ELSE IF lengthA < lengthB THEN (IF maxA THEN 1 ELSE -1)
        ELSE localeCompare(x, y)

\* desktopFirst with the priority results of sortCSSmq
desktopFirstSamePriority(x, y) ==
    LET minA == hasMinBound(x)
        maxA == hasMaxBound(x)
        minB == hasMinBound(y)
        maxB == hasMaxBound(y)
        lengthA == getQueryLength(x)
        lengthB == getQueryLength(y)
    IN  IF minA /\ maxB THEN -1
        ELSE IF maxA /\ minB THEN 1
        ELSE IF lengthA = maxValue /\ lengthB = maxValue THEN localeCompare(x, y)
        ELSE IF lengthA = maxValue THEN 1
        ELSE IF lengthB = maxValue THEN -1
        ELSE IF lengthA > lengthB THEN (IF maxA THEN -1 ELSE 1)
        ELSE IF lengthA < lengthB THEN (IF maxA THEN 1 ELSE -1)
        ELSE -localeCompare(x, y)

\* sortCSSmq.desktopFirst = function (a, b), src/index.js:163-203
desktopFirst(x, y) ==
    LET minA == hasMinBound(x)
        maxA == hasMaxBound(x)
        minB == hasMinBound(y)
        maxB == hasMaxBound(y)
        lengthA == getQueryLength(x)
        lengthB == getQueryLength(y)
    IN  IF minA /\ maxB THEN 1
        ELSE IF maxA /\ minB THEN -1
        ELSE IF lengthA = maxValue /\ lengthB = maxValue THEN localeCompare(x, y)
        ELSE IF lengthA = maxValue THEN 1
        ELSE IF lengthB = maxValue THEN -1
        ELSE IF lengthA > lengthB THEN (IF maxA THEN -1 ELSE 1)
        ELSE IF lengthA < lengthB THEN (IF maxA THEN 1 ELSE -1)
        ELSE -localeCompare(x, y)

\* the comparator exported under the name
Compare(fn, x, y) == IF fn = "sortCSSmq" THEN sortCSSmq(x, y) ELSE desktopFirst(x, y)

-----------------------------------------------------------------------------
(* The caller's sort (mqpacker's `sort: sortCSSmq` option hands the         *)
(* comparator to Array.prototype.sort): an insertion sort, the comparison   *)
(* sort the engine runs on short arrays.                                    *)

RECURSIVE Insert(_, _, _)
\* element walks left past every tmp with comparefn(tmp, element) > 0
Insert(s, element, fn) ==
    IF s = <<>> THEN <<element>>
    ELSE IF Compare(fn, s[Len(s)], element) > 0
         THEN Append(Insert(SubSeq(s, 1, Len(s) - 1), element, fn), s[Len(s)])
         ELSE Append(s, element)

RECURSIVE InsertionSort(_, _)
InsertionSort(l, fn) ==
    IF l = <<>> THEN <<>>
    ELSE Insert(InsertionSort(SubSeq(l, 1, Len(l) - 1), fn), l[Len(l)], fn)

-----------------------------------------------------------------------------
(* State: the arguments of a call (a, b; c is a third query for chains of   *)
(* comparisons), the caller's list with its value before the last sorting   *)
(* pass, and the last call's name and result.                               *)

NoCall == [fn |-> "none", v |-> 0]

\* sortCSSmq(a, b)
SortCSSmq ==
    /\ ret' = [fn |-> "sortCSSmq", v |-> sortCSSmq(a, b)]
    /\ UNCHANGED <<a, b, c, list, prev>>

\* sortCSSmq.desktopFirst(a, b)
DesktopFirst ==
    /\ ret' = [fn |-> "desktopFirst", v |-> desktopFirst(a, b)]
    /\ UNCHANGED <<a, b, c, list, prev>>

IsMinWidth ==
    /\ ret' = [fn |-> "isMinWidth", v |-> isMinWidth(a)]
    /\ UNCHANGED <<a, b, c, list, prev>>

IsMaxWidth ==
    /\ ret' = [fn |-> "isMaxWidth", v |-> isMaxWidth(a)]
    /\ UNCHANGED <<a, b, c, list, prev>>

IsMinHeight ==
    /\ ret' = [fn |-> "isMinHeight", v |-> isMinHeight(a)]
    /\ UNCHANGED <<a, b, c, list, prev>>

IsMaxHeight ==
    /\ ret' = [fn |-> "isMaxHeight", v |-> isMaxHeight(a)]
    /\ UNCHANGED <<a, b, c, list, prev>>

\* list.sort(sortCSSmq); ret.v counts the passes made with this comparator
SortList ==
    /\ ret.fn \in {"none", "sort(sortCSSmq)"}
    /\ ret.v < MaxPasses
    /\ prev' = list
    /\ list' = InsertionSort(list, "sortCSSmq")
    /\ ret' = [fn |-> "sort(sortCSSmq)", v |-> ret.v + 1]
    /\ UNCHANGED <<a, b, c>>

\* list.sort(sortCSSmq.desktopFirst)
SortListDesktopFirst ==
    /\ ret.fn \in {"none", "sort(desktopFirst)"}
    /\ ret.v < MaxPasses
    /\ prev' = list
    /\ list' = InsertionSort(list, "desktopFirst")
    /\ ret' = [fn |-> "sort(desktopFirst)", v |-> ret.v + 1]
    /\ UNCHANGED <<a, b, c>>

\* two queries, one comparator call
Init ==
    /\ a \in Queries
    /\ b \in Queries
    /\ c = <<>>
    /\ list = <<>>
    /\ prev = <<>>
    /\ ret = NoCall

Next == SortCSSmq \/ DesktopFirst

Spec == Init /\ [][Next]_vars

\* three queries, for chains of comparisons
InitChain ==
    /\ a \in Queries
    /\ b \in Queries
    /\ c \in Queries
    /\ list = <<>>
    /\ prev = <<>>
    /\ ret = NoCall

SpecChain == InitChain /\ [][Next]_vars

\* one query over every feature name, one classifier call
InitClassify ==
    /\ a \in FeatureQueries
    /\ b = <<>>
    /\ c = <<>>
    /\ list = <<>>
    /\ prev = <<>>
    /\ ret = NoCall

NextClassify == IsMinWidth \/ IsMaxWidth \/ IsMinHeight \/ IsMaxHeight

SpecClassify == InitClassify /\ [][NextClassify]_vars

\* a list of queries, sorted again and again with one comparator
InitSort ==
    /\ a = <<>>
    /\ b = <<>>
    /\ c = <<>>
    /\ list \in SeqsUpTo(Queries, MaxList)
    /\ prev = <<>>
    /\ ret = NoCall

NextSort == SortList \/ SortListDesktopFirst

SpecSort == InitSort /\ [][NextSort]_vars

-----------------------------------------------------------------------------
(* What the properties below speak of *)

Compared == ret.fn \in {"sortCSSmq", "desktopFirst"}

Measurable(q) == getQueryLength(q) # maxValue

\* the min/max priority rule decides the pair
PriorityDecides(x, y) ==
    \/ hasMinBound(x) /\ hasMaxBound(y)
    \/ hasMaxBound(x) /\ hasMinBound(y)

MinOnly(q) == hasMinBound(q) /\ ~hasMaxBound(q)
MaxOnly(q) == hasMaxBound(q) /\ ~hasMinBound(q)

\* the leftmost lexeme of q that holds a number and a unit
HoldsLength(q) == \E i \in DOMAIN q : HasLength(q[i])
FirstLength(q) ==
    q[CHOOSE i \in DOMAIN q :
        HasLength(q[i]) /\ \A j \in 1..(i - 1) : ~HasLength(q[j])]

\* x's first length is n em or n rem and y's first length is 16n px
EmAndPx(x, y) ==
    /\ HoldsLength(x) /\ HoldsLength(y)
    /\ FirstLength(x).name \in {"em", "rem"}
    /\ FirstLength(y).name = "px"
    /\ FirstLength(y).num = 16 * FirstLength(x).num

\* q with every min-device-width, max-device-width, min-device-height and
\* max-device-height replaced by the name without "-device"
StripDevice(q) ==
    [i \in DOMAIN q |->
        CASE q[i].name = "min-device-width" -> Feature("min-width")
          [] q[i].name = "max-device-width" -> Feature("max-width")
          [] q[i].name = "min-device-height" -> Feature("min-height")
          [] q[i].name = "max-device-height" -> Feature("max-height")
          [] OTHER -> q[i]]

-----------------------------------------------------------------------------
(* C1 *)

-----------------------------------------------------------------------------
(* C2 *)

\* C2 as claimed: an unmeasurable query sorts after a measurable one under
\* both comparators, for every classification of the two.
C2_SentinelAlwaysLast ==
    Compared =>
        /\ (~Measurable(a) /\ Measurable(b)) => ret.v = 1
        /\ (Measurable(a) /\ ~Measurable(b)) => ret.v = -1

\* C2 amended: an unmeasurable query sorts after a measurable one under both
\* comparators whenever the min/max priority rule does not decide the pair.
C2_SentinelLastUnlessPriority ==
    (Compared /\ ~PriorityDecides(a, b)) =>
        /\ (~Measurable(a) /\ Measurable(b)) => ret.v = 1
        /\ (Measurable(a) /\ ~Measurable(b)) => ret.v = -1

\* sortCSSmq was called on an unmeasurable maximum-bound a and a measurable b
\* that the priority rule does not decide
C2_Witness ==
    /\ ret.fn = "sortCSSmq"
    /\ ~Measurable(a) /\ Measurable(b)
    /\ hasMaxBound(a)
    /\ ~PriorityDecides(a, b)
    /\ ret.v = 1

-----------------------------------------------------------------------------
(* C3 *)

-----------------------------------------------------------------------------
(* C4 *)

\* both comparators end in the string comparison: the priority rule does not
\* decide and the lengths are equal (both unmeasurable, or the same length)
LexicalBranch(x, y) ==
    ~PriorityDecides(x, y) /\ getQueryLength(x) = getQueryLength(y)

\* C4 as claimed: whenever the result does not come from the string
\* comparison, sortCSSmq(a, b) = -desktopFirst(a, b).
C4_ExactMirror ==
    (ret.fn = "sortCSSmq" /\ ~LexicalBranch(a, b)) => ret.v = -desktopFirst(a, b)

\* C4 amended: sortCSSmq(a, b) = -desktopFirst(a, b) for the pairs the min/max
\* priority rule decides; for the pairs decided by the length comparison or by
\* the one-side-unmeasurable rule the two comparators return the same result.
C4_MirrorOnPriorityOnly ==
    ret.fn = "sortCSSmq" =>
        /\ PriorityDecides(a, b) => ret.v = -desktopFirst(a, b)
        /\ (~PriorityDecides(a, b) /\ getQueryLength(a) # getQueryLength(b)) =>
              ret.v = desktopFirst(a, b)

\* sortCSSmq put a maximum-bound a after a minimum-bound b
C4_Witness ==
    /\ ret.fn = "sortCSSmq"
    /\ hasMaxBound(a) /\ hasMinBound(b)
    /\ ~(hasMinBound(a) /\ hasMaxBound(b))
    /\ ret.v = 1

-----------------------------------------------------------------------------
(* C5 *)

\* C5: each comparator is antisymmetric: the call with the arguments swapped
\* returns the negated result.
C5_Antisymmetric == Compared => ret.v = -Compare(ret.fn, b, a)

-----------------------------------------------------------------------------
(* C6 *)

\* C6: a list sorted with a comparator is left unchanged by sorting it again
\* with the same comparator.
C6_SortIdempotent == ret.v >= 2 => list = prev

-----------------------------------------------------------------------------
(* C7 *)

\* C7: replacing the device-prefixed feature names of a query by the plain
\* ones leaves each of the four classifiers' answers unchanged.
C7_DeviceAlike ==
    /\ ret.fn = "isMinWidth" => ret.v = isMinWidth(StripDevice(a))
    /\ ret.fn = "isMaxWidth" => ret.v = isMaxWidth(StripDevice(a))
    /\ ret.fn = "isMinHeight" => ret.v = isMinHeight(StripDevice(a))
    /\ ret.fn = "isMaxHeight" => ret.v = isMaxHeight(StripDevice(a))

-----------------------------------------------------------------------------
(* C8 *)

\* C8: a query is measured by its first length alone, n em as 16n px; so when
\* one query's first length is n em and the other's is 16n px the magnitudes
\* are equal, and unless the priority rule decides, sortCSSmq returns the
\* string comparison and desktopFirst its negation.
C8_EmEqualsPx ==
    (EmAndPx(a, b) \/ EmAndPx(b, a)) =>
        /\ getQueryLength(a) = getQueryLength(b)
        /\ getQueryLength(a) =
              FirstLength(a).num * (IF FirstLength(a).name = "px" THEN 128 ELSE 16 * 128)
        /\ (ret.fn = "sortCSSmq" /\ ~PriorityDecides(a, b)) =>
              ret.v = localeCompare(a, b)
        /\ (ret.fn = "desktopFirst" /\ ~PriorityDecides(a, b)) =>
              ret.v = -localeCompare(a, b)

\* sortCSSmq compared "n em" followed by another length with "16n px", and
\* the string comparison put a last
C8_Witness ==
    /\ ret.fn = "sortCSSmq"
    /\ EmAndPx(a, b)
    /\ ~PriorityDecides(a, b)
    /\ Len(a) > 1 /\ HasLength(a[2]) /\ a[2] # a[1]
    /\ ret.v = 1

-----------------------------------------------------------------------------
(* C9 *)

\* the answer of a classifier built from the three patterns' answers, as C9
\* claims it
ExclusiveAnswer(v, ownOrder, otherOrder) ==
    /\ ownOrder => v = TRUE
    /\ otherOrder => v = FALSE

\* C9 as claimed: on each axis, where the min...max pattern matches is-min is
\* true and is-max false, and where the max...min pattern matches is-max is
\* true and is-min false, also where both ordered patterns match.
C9_Exclusive ==
    /\ ret.fn = "isMinWidth" => ExclusiveAnswer(ret.v, minMaxWidth(a), maxMinWidth(a))
    /\ ret.fn = "isMaxWidth" => ExclusiveAnswer(ret.v, maxMinWidth(a), minMaxWidth(a))
    /\ ret.fn = "isMinHeight" => ExclusiveAnswer(ret.v, minMaxHeight(a), maxMinHeight(a))
    /\ ret.fn = "isMaxHeight" => ExclusiveAnswer(ret.v, maxMinHeight(a), minMaxHeight(a))

\* the answer as amended: a classifier's own ordered pattern wins
OwnOrderFirst(v, ownOrder, otherOrder, single) ==
    /\ ownOrder => v = TRUE
    /\ (otherOrder /\ ~ownOrder) => v = FALSE
    /\ (~ownOrder /\ ~otherOrder) => v = single

\* C9 amended: on each axis, where exactly one ordered pattern matches the
\* two tests are exclusive (is-min true and is-max false for min...max, the
\* reverse for max...min); where both ordered patterns match, is-min and
\* is-max are both true; the single-sided pattern answers only where neither
\* ordered pattern matches.
C9_ExclusiveUnlessBothOrders ==
    /\ ret.fn = "isMinWidth" =>
          OwnOrderFirst(ret.v, minMaxWidth(a), maxMinWidth(a), minWidth(a))
    /\ ret.fn = "isMaxWidth" =>
          OwnOrderFirst(ret.v, maxMinWidth(a), minMaxWidth(a), maxWidth(a))
    /\ ret.fn = "isMinHeight" =>
          OwnOrderFirst(ret.v, minMaxHeight(a), maxMinHeight(a), minHeight(a))
    /\ ret.fn = "isMaxHeight" =>
          OwnOrderFirst(ret.v, maxMinHeight(a), minMaxHeight(a), maxHeight(a))

\* isMaxHeight answered true on a query where both ordered height patterns
\* match
C9_Witness ==
    /\ ret.fn = "isMaxHeight"
    /\ minMaxHeight(a) /\ maxMinHeight(a)
    /\ ret.v = TRUE

-----------------------------------------------------------------------------
(* C10 *)

\* C10: each comparator is transitive: a before b and b before c give a
\* before c.
C10_Transitive ==
    (Compared /\ ret.v < 0 /\ Compare(ret.fn, b, c) < 0) => Compare(ret.fn, a, c) < 0

====
